---- MODULE Spec2Model ----
(***************************************************************************)
(* State-machine model of ObjectTracker (src/src/ObjectTracker.cpp): the   *)
(* registry of tracked objects, update() with its greedy matching and      *)
(* cleanup, and the queries active_objects(), object_count(), top() and    *)
(* topValid().                                                             *)
(*                                                                         *)
(* Indices are 1-based here (rows 1..m, columns 1..n) where the C++ code   *)
(* uses 0..m-1 and 0..n-1.                                                 *)
(***************************************************************************)
EXTENDS Integers, Sequences, FiniteSets, TLC

\* ------------------------------------------------------------- bounds
\* Largest id handed out: an update() that would register more is not taken.
MaxId == 2
\* Longest detection list passed to update().
MaxDets == 2
\* Most topValid() calls between two update() calls.
MaxCalls == 2
\* Most update() calls in a run (m_framecount grows without bound otherwise).
MaxFrames == 4

\* Positions of detections: pairwise distances 3, 3 and 4 (exact roots).
Points == {<<0, 0, 0>>, <<1, 2, 2>>, <<1, -2, 2>>}
Sizes == {1, 2}
\* Constructor arguments the model is started with.
DistTols == {4}
MaxDisappearedChoices == {0, 1}
MinFramecounts == {1, 2}

Objects == {[x |-> p[1], y |-> p[2], z |-> p[3], size |-> s] : p \in Points, s \in Sizes}
DetLists == UNION {[1..n -> Objects] : n \in 0..MaxDets}


VARIABLES
    m_dist_tol,              \* constructor arguments
    m_max_dissapeared_frms,
    m_min_framecount,
    m_active_objects,        \* std::map<ObjectID, Object>
    m_uprooted,              \* std::map<ObjectID, bool>
    m_disappeared,           \* std::map<ObjectID, uint32_t>
    m_framecount,            \* std::map<ObjectID, uint32_t>
    m_id_list,               \* std::vector<ObjectID>
    m_next_id,
    crashed,                 \* the process died in cleanup_dissapeared
    frames,                  \* history: number of update() calls so far
    ret_ids,                 \* history: every value register_object returned, in order
    matchRun,                \* history: id -> consecutive updates it was matched/registered in
    missRun,                 \* history: id -> consecutive updates it was missed in
    lastRemoved,             \* history: ids the last update deregistered -> their missRun
    removed,                 \* history: every id deregistered so far
    returned,                \* history: ids topValid returned before the last update
    tvLog,                   \* history: results of the topValid calls since the last update
    eligAtStart,             \* history: ids eligible for topValid right after the last update
    last                     \* history: the last update or topValid call

config == <<m_dist_tol, m_max_dissapeared_frms, m_min_framecount>>
tracker == <<m_active_objects, m_uprooted, m_disappeared, m_framecount, m_id_list, m_next_id>>
history == <<frames, ret_ids, matchRun, missRun, lastRemoved, removed, returned, tvLog, eligAtStart, last>>
vars == <<config, tracker, crashed, history>>

\* ------------------------------------------------------------- helpers
Min(S) == CHOOSE a \in S : \A b \in S : a <= b
Put(f, k, v) == [a \in DOMAIN f \cup {k} |-> IF a = k THEN v ELSE f[a]]
Erase(f, k) == [a \in DOMAIN f \ {k} |-> f[a]]
InsertAt(s, i, e) == SubSeq(s, 1, i - 1) \o <<e>> \o SubSeq(s, i, Len(s))
EraseFirst(s, e) ==
    LET hits == {i \in 1..Len(s) : s[i] = e}
    IN IF hits = {} THEN s
       ELSE SubSeq(s, 1, Min(hits) - 1) \o SubSeq(s, Min(hits) + 1, Len(s))
Range(s) == {s[i] : i \in 1..Len(s)}
\* The permutations of 1..n, as sequences (tabulated once).
AllPerms ==
    [n \in 0..(IF MaxId > MaxDets THEN MaxId ELSE MaxDets) |->
        {p \in [1..n -> 1..n] : \A i, j \in 1..n : i # j => p[i] # p[j]}]
Perms(n) == AllPerms[n]

\* sqrt on the perfect squares the chosen Points produce.
Sqrt(n) == CHOOSE r \in 0..n : r * r = n

euclidean_distance(a, b) ==
    LET delt_x == a.x - b.x
        delt_y == a.y - b.y
        delt_z == a.z - b.z
    IN Sqrt(delt_x * delt_x + delt_y * delt_y + delt_z * delt_z)

\* Object::operator> (declared in urVision/ObjectTracker.h): ranking by size.
Greater(a, b) == a.size > b.size

\* The value m_next_id is initialised with (urVision/ObjectTracker.h).
FirstId == 1
\* What topValid() logs when it returns false: a value that is no id.
None == FirstId - 1

\* The tracker's members as one record, threaded through the loops of update().
Tracker ==
    [m_active_objects |-> m_active_objects, m_uprooted |-> m_uprooted,
     m_disappeared |-> m_disappeared, m_framecount |-> m_framecount,
     m_id_list |-> m_id_list, m_next_id |-> m_next_id, ret_ids |-> ret_ids]

\* ------------------------------------------------------------- queries
\* std::map::operator[] as an rvalue: a missing key is inserted with a
\* value-initialised Object.
DefaultObject == [x |-> 0, y |-> 0, z |-> 0, size |-> 0]
\* Mutant of Touch: the read overwrites the entry.
Touch_reset(objs, id) == Put(objs, id, DefaultObject)
Touch(objs, id) == IF id \in DOMAIN objs THEN objs ELSE Put(objs, id, DefaultObject)
At(objs, id) == Touch(objs, id)[id]

\* active_objects(): the returned vector
active_objects_of(T) == [i \in 1..Len(T.m_id_list) |-> At(T.m_active_objects, T.m_id_list[i])]
active_objects == active_objects_of(Tracker)
\* active_objects(): m_active_objects after the call
RECURSIVE TouchAll(_, _, _)
TouchAll(objs, ids, k) ==
    IF k > Len(ids) THEN objs ELSE TouchAll(Touch(objs, ids[k]), ids, k + 1)

object_count == Cardinality(DOMAIN m_active_objects)

\* top(): the return value and to_ret
top ==
    IF object_count = 0 THEN [ok |-> FALSE]
    ELSE [ok |-> TRUE, obj |-> At(m_active_objects, m_id_list[1])]

\* Mutant of topValid_pick: the loop runs over m_id_list, in ranked order.
topValid_pick_ranked ==
    LET ok == {i \in 1..Len(m_id_list) :
                  /\ m_framecount[m_id_list[i]] >= m_min_framecount
                  /\ m_uprooted[m_id_list[i]] = FALSE}
    IN IF object_count = 0 \/ ok = {} THEN None ELSE m_id_list[Min(ok)]
\* Mutant of topValid_pick: the framecount condition is dropped.
topValid_pick_any ==
    LET ok == {id \in DOMAIN m_active_objects : m_uprooted[id] = FALSE}
    IN IF Cardinality(DOMAIN m_active_objects) = 0 \/ ok = {} THEN None ELSE Min(ok)
\* topValid(): the loop runs over m_active_objects in key order and stops at the
\* first key with a valid framecount that is not uprooted; None when there is none.
topValid_pick ==
    LET ok == {id \in DOMAIN m_active_objects :
                  m_framecount[id] >= m_min_framecount /\ m_uprooted[id] = FALSE}
    IN IF object_count = 0 \/ ok = {} THEN None ELSE Min(ok)
\* Mutant of topValid_uprooted: the flag is not set.
topValid_uprooted_unset(id) == m_uprooted
\* m_uprooted after topValid() has picked id.
topValid_uprooted(id) == [m_uprooted EXCEPT ![id] = TRUE]

\* ------------------------------------------------------------- registry
\* Mutant of register_object: the next id is taken from the number of tracked
\* objects, so ids of deregistered objects come back.
register_object_reuse(T, obj) ==
    LET n == Len(T.m_id_list)
        stops == {i \in 1..n : ~Greater(T.m_active_objects[T.m_id_list[i]], obj)}
        pos == IF stops = {} THEN n + 1 ELSE Min(stops)
        id == FirstId + Cardinality(DOMAIN T.m_active_objects)
    IN [T EXCEPT !.m_id_list = InsertAt(@, pos, id),
                 !.m_active_objects = Put(@, id, obj),
                 !.m_uprooted = Put(@, id, FALSE),
                 !.m_disappeared = Put(@, id, 0),
                 !.m_framecount = Put(@, id, 1),
                 !.ret_ids = Append(@, id),
                 !.m_next_id = @ + 1]

\* Mutant of register_object: the new identity starts with m_uprooted set.
register_object_claimed(T, obj) ==
    LET n == Len(T.m_id_list)
        stops == {i \in 1..n : ~Greater(T.m_active_objects[T.m_id_list[i]], obj)}
        pos == IF stops = {} THEN n + 1 ELSE Min(stops)
    IN [T EXCEPT !.m_id_list = InsertAt(@, pos, T.m_next_id),
                 !.m_active_objects = Put(@, T.m_next_id, obj),
                 !.m_uprooted = Put(@, T.m_next_id, TRUE),
                 !.m_disappeared = Put(@, T.m_next_id, 0),
                 !.m_framecount = Put(@, T.m_next_id, 1),
                 !.ret_ids = Append(@, T.m_next_id),
                 !.m_next_id = @ + 1]

register_object(T, obj) ==
    LET n == Len(T.m_id_list)
        stops == {i \in 1..n : ~Greater(T.m_active_objects[T.m_id_list[i]], obj)}
        pos == IF stops = {} THEN n + 1 ELSE Min(stops)
    IN [T EXCEPT !.m_id_list = InsertAt(@, pos, T.m_next_id),
                 !.m_active_objects = Put(@, T.m_next_id, obj),
                 !.m_uprooted = Put(@, T.m_next_id, FALSE),
                 !.m_disappeared = Put(@, T.m_next_id, 0),
                 !.m_framecount = Put(@, T.m_next_id, 1),
                 !.ret_ids = Append(@, T.m_next_id),
                 !.m_next_id = @ + 1]

\* Mutant of deregister_object: the id stays in m_id_list.
deregister_object_keep_list(T, id) ==
    [T EXCEPT !.m_active_objects = Erase(@, id),
              !.m_uprooted = Erase(@, id),
              !.m_disappeared = Erase(@, id),
              !.m_framecount = Erase(@, id)]

deregister_object(T, id) ==
    [T EXCEPT !.m_active_objects = Erase(@, id),
              !.m_uprooted = Erase(@, id),
              !.m_disappeared = Erase(@, id),
              !.m_framecount = Erase(@, id),
              !.m_id_list = EraseFirst(@, id)]

RECURSIVE deregister_all(_, _)
deregister_all(T, ids) ==
    IF ids = {} THEN T
    ELSE deregister_all(deregister_object(T, Min(ids)), ids \ {Min(ids)})

\* Entries cleanup_dissapeared finds above the threshold.
Expired(T) == {id \in DOMAIN T.m_disappeared : T.m_disappeared[id] > m_max_dissapeared_frms}

\* cleanup_dissapeared erases the map entry its iterator points at and then
\* increments that iterator: undefined behaviour.  The first expired entry (in
\* key order) is always deregistered; after that the loop may continue anywhere
\* in the map (so any of the other expired entries may or may not be visited)
\* or the process may die.
cleanup_dissapeared(T) ==
    IF Expired(T) = {} THEN {[T |-> T, crashed |-> FALSE]}
    ELSE {[T |-> deregister_all(T, {Min(Expired(T))} \cup S), crashed |-> c] :
             S \in SUBSET (Expired(T) \ {Min(Expired(T))}), c \in BOOLEAN}


\* ------------------------------------------------------------- update
\* Mutant of update_none: the framecounts are left as they are.
update_none_keep_streak(T) ==
    [T |-> [T EXCEPT !.m_disappeared = [id \in DOMAIN @ |-> @[id] + 1]],
     matched |-> {}, used_cols |-> {}, pairs |-> <<>>]
\* Case new_objs.size() == 0: every entry of m_disappeared is a miss.
update_none(T) ==
    [T |-> [T EXCEPT !.m_disappeared = [id \in DOMAIN @ |-> @[id] + 1],
                     !.m_framecount = [id \in DOMAIN @ \cup DOMAIN T.m_disappeared |->
                                          IF id \in DOMAIN T.m_disappeared THEN 0 ELSE @[id]]],
     matched |-> {}, used_cols |-> {}, pairs |-> <<>>]

RECURSIVE register_seq(_, _, _)
\* register_object for objs[k], objs[k+1], ..., in that order
register_seq(T, objs, k) ==
    IF k > Len(objs) THEN T
    ELSE register_seq(register_object(T, objs[k]), objs, k + 1)

\* Mutant of update_register_all: a detection equal to an earlier one of the
\* same frame is not registered again.
update_register_all_merge(T, new_objs) ==
    LET firsts == {i \in 1..Len(new_objs) : \A j \in 1..(i - 1) : new_objs[j] # new_objs[i]}
        pick[i \in 0..Len(new_objs)] ==
            IF i = 0 THEN <<>>
            ELSE IF i \in firsts THEN Append(pick[i - 1], new_objs[i]) ELSE pick[i - 1]
    IN [T |-> register_seq(T, pick[Len(new_objs)], 1), matched |-> {}, used_cols |-> {}, pairs |-> <<>>]

\* Case m_active_objects.size() == 0: every new object is registered, in input order.
update_register_all(T, new_objs) ==
    [T |-> register_seq(T, new_objs, 1), matched |-> {}, used_cols |-> {}, pairs |-> <<>>]

\* 1. dist_matrix[i][j]
dist_matrix(T, new_objs) ==
    [i \in 1..Cardinality(DOMAIN T.m_active_objects) |->
        [j \in 1..Len(new_objs) |->
            euclidean_distance(T.m_active_objects[T.m_id_list[i]], new_objs[j])]]

\* What std::sort may leave of 1..n under the comparison key[a] < key[b]: any
\* permutation in which no later element compares less than an earlier one
\* (the order of equivalent elements is unspecified).
SortOutcomes(n, key) ==
    {p \in Perms(n) : \A i, j \in 1..n : i < j => ~(key[p[j]] < key[p[i]])}

\* 2. the intra-row sorts (sorted_ids) and the sort of the rows (active_obj_ids)
sorted_ids_outcomes(D, m, n) ==
    LET rows == [i \in 1..m |-> SortOutcomes(n, D[i])]
    IN {s \in [1..m -> Perms(n)] : \A i \in 1..m : s[i] \in rows[i]}
\* Mutant of active_obj_ids_outcomes: the rows are left in any order.
active_obj_ids_unsorted(D, s, m) == Perms(m)
active_obj_ids_outcomes(D, s, m) ==
    SortOutcomes(m, [i \in 1..m |-> D[i][s[i][1]]])

\* Mutant of match_row: a matched id is moved to the place in m_id_list that
\* register_object would give its new object.
match_row_resort(acc, new_objs, D, sorted_ids, row) ==
    LET cols == sorted_ids[row]
        ok == {p \in 1..Len(cols) :
                  cols[p] \notin acc.used_cols /\ D[row][cols[p]] < m_dist_tol}
        id == acc.T.m_id_list[row]
    IN IF ok # {}
       THEN LET col == cols[Min(ok)]
                rest == EraseFirst(acc.T.m_id_list, id)
                stops == {i \in 1..Len(rest) :
                             ~Greater(acc.T.m_active_objects[rest[i]], new_objs[col])}
                pos == IF stops = {} THEN Len(rest) + 1 ELSE Min(stops)
            IN [T |-> [acc.T EXCEPT !.m_active_objects[id] = new_objs[col],
                                    !.m_framecount[id] = @ + 1,
                                    !.m_id_list = InsertAt(rest, pos, id)],
                matched |-> acc.matched \cup {id},
                used_cols |-> acc.used_cols \cup {col},
                pairs |-> Append(acc.pairs, [row |-> row, hit |-> TRUE, col |-> col])]
       ELSE [T |-> [acc.T EXCEPT !.m_disappeared[id] = @ + 1,
                                 !.m_framecount[id] = 0],
             matched |-> acc.matched,
             used_cols |-> acc.used_cols,
             pairs |-> Append(acc.pairs, [row |-> row, hit |-> FALSE])]
\* Mutant of match_row: the tolerance test is <= instead of <.
match_row_le(acc, new_objs, D, sorted_ids, row) ==
    LET cols == sorted_ids[row]
        ok == {p \in 1..Len(cols) :
                  cols[p] \notin acc.used_cols /\ D[row][cols[p]] <= m_dist_tol}
        id == acc.T.m_id_list[row]
    IN IF ok # {}
       THEN LET col == cols[Min(ok)]
            IN [T |-> [acc.T EXCEPT !.m_active_objects[id] = new_objs[col],
                                    !.m_framecount[id] = @ + 1],
                matched |-> acc.matched \cup {id},
                used_cols |-> acc.used_cols \cup {col},
                pairs |-> Append(acc.pairs, [row |-> row, hit |-> TRUE, col |-> col])]
       ELSE [T |-> [acc.T EXCEPT !.m_disappeared[id] = @ + 1,
                                 !.m_framecount[id] = 0],
             matched |-> acc.matched,
             used_cols |-> acc.used_cols,
             pairs |-> Append(acc.pairs, [row |-> row, hit |-> FALSE])]
\* Mutant of match_row: a match resets the count of missed updates.
match_row_reset(acc, new_objs, D, sorted_ids, row) ==
    LET cols == sorted_ids[row]
        ok == {p \in 1..Len(cols) :
                  cols[p] \notin acc.used_cols /\ D[row][cols[p]] < m_dist_tol}
        id == acc.T.m_id_list[row]
    IN IF ok # {}
       THEN LET col == cols[Min(ok)]
            IN [T |-> [acc.T EXCEPT !.m_active_objects[id] = new_objs[col],
                                    !.m_framecount[id] = @ + 1,
                                    !.m_disappeared[id] = 0],
                matched |-> acc.matched \cup {id},
                used_cols |-> acc.used_cols \cup {col},
                pairs |-> Append(acc.pairs, [row |-> row, hit |-> TRUE, col |-> col])]
       ELSE [T |-> [acc.T EXCEPT !.m_disappeared[id] = @ + 1,
                                 !.m_framecount[id] = 0],
             matched |-> acc.matched,
             used_cols |-> acc.used_cols,
             pairs |-> Append(acc.pairs, [row |-> row, hit |-> FALSE])]
\* 3. one pass of the loop over active_obj_ids, for row `row`; pairs logs, in
\* the order the rows are resolved, which column each row took (found_update)
match_row(acc, new_objs, D, sorted_ids, row) ==
    LET cols == sorted_ids[row]
        ok == {p \in 1..Len(cols) :
                  cols[p] \notin acc.used_cols /\ D[row][cols[p]] < m_dist_tol}
        id == acc.T.m_id_list[row]
    IN IF ok # {}
       THEN LET col == cols[Min(ok)]
            IN [T |-> [acc.T EXCEPT !.m_active_objects[id] = new_objs[col],
                                    !.m_framecount[id] = @ + 1],
                matched |-> acc.matched \cup {id},
                used_cols |-> acc.used_cols \cup {col},
                pairs |-> Append(acc.pairs, [row |-> row, hit |-> TRUE, col |-> col])]
       ELSE [T |-> [acc.T EXCEPT !.m_disappeared[id] = @ + 1,
                                 !.m_framecount[id] = 0],
             matched |-> acc.matched,
             used_cols |-> acc.used_cols,
             pairs |-> Append(acc.pairs, [row |-> row, hit |-> FALSE])]

RECURSIVE match_rows(_, _, _, _, _, _)
match_rows(acc, new_objs, D, sorted_ids, active_obj_ids, k) ==
    IF k > Len(active_obj_ids) THEN acc
    ELSE match_rows(match_row(acc, new_objs, D, sorted_ids, active_obj_ids[k]),
                    new_objs, D, sorted_ids, active_obj_ids, k + 1)

RECURSIVE register_unused(_, _, _, _)
\* "Add any new objects in the scene": the columns in the order of sorted_ids[0].
register_unused(acc, new_objs, cols, k) ==
    IF k > Len(cols) THEN acc
    ELSE register_unused(
             IF cols[k] \in acc.used_cols THEN acc
             ELSE [acc EXCEPT !.T = register_object(@, new_objs[cols[k]])],
             new_objs, cols, k + 1)

\* Mutant of update_match: the detections no row took are not registered.
update_match_drop(T, new_objs, sorted_ids, active_obj_ids) ==
    LET D == dist_matrix(T, new_objs)
    IN match_rows([T |-> T, matched |-> {}, used_cols |-> {}, pairs |-> <<>>],
                  new_objs, D, sorted_ids, active_obj_ids, 1)
\* The general case, for one outcome of the two sorts.
update_match(T, new_objs, sorted_ids, active_obj_ids) ==
    LET D == dist_matrix(T, new_objs)
        acc == match_rows([T |-> T, matched |-> {}, used_cols |-> {}, pairs |-> <<>>],
                          new_objs, D, sorted_ids, active_obj_ids, 1)
    IN register_unused(acc, new_objs, sorted_ids[1], 1)

\* update() up to the call of cleanup_dissapeared: the possible results.
update_body(T, new_objs) ==
    IF Len(new_objs) = 0 THEN {update_none(T)}
    ELSE IF Cardinality(DOMAIN T.m_active_objects) = 0 THEN {update_register_all(T, new_objs)}
    ELSE LET m == Cardinality(DOMAIN T.m_active_objects)
             n == Len(new_objs)
             D == dist_matrix(T, new_objs)
         IN UNION {{update_match(T, new_objs, s, a) : a \in active_obj_ids_outcomes(D, s, m)} :
                      s \in sorted_ids_outcomes(D, m, n)}

\* ------------------------------------------------------------- actions
Init ==
    /\ m_dist_tol \in DistTols
    /\ m_max_dissapeared_frms \in MaxDisappearedChoices
    /\ m_min_framecount \in MinFramecounts
    /\ m_active_objects = <<>>
    /\ m_uprooted = <<>>
    /\ m_disappeared = <<>>
    /\ m_framecount = <<>>
    /\ m_id_list = <<>>
    /\ m_next_id = FirstId
    /\ crashed = FALSE
    /\ frames = 0
    /\ ret_ids = <<>>
    /\ matchRun = <<>>
    /\ missRun = <<>>
    /\ lastRemoved = <<>>
    /\ removed = {}
    /\ returned = {}
    /\ tvLog = <<>>
    /\ eligAtStart = {}
    /\ last = [op |-> "init"]

Update ==
    /\ ~crashed
    /\ frames < MaxFrames
    /\ frames' = frames + 1
    /\ \E new_objs \in DetLists :
         \E u \in update_body(Tracker, new_objs) :
              /\ u.T.m_next_id <= MaxId + 1
              /\ \E c \in cleanup_dissapeared(u.T) :
                 LET before == DOMAIN m_active_objects
                     after == DOMAIN c.T.m_active_objects
                     run(h, id, hit) == IF hit THEN (IF id \in DOMAIN h THEN h[id] ELSE 0) + 1
                                        ELSE 0
                     matchRunU == [id \in DOMAIN u.T.m_active_objects |->
                                      run(matchRun, id, id \notin before \/ id \in u.matched)]
                     missRunU == [id \in DOMAIN u.T.m_active_objects |->
                                     run(missRun, id, id \in before /\ id \notin u.matched)]
                 IN /\ m_active_objects' = c.T.m_active_objects
                    /\ m_uprooted' = c.T.m_uprooted
                    /\ m_disappeared' = c.T.m_disappeared
                    /\ m_framecount' = c.T.m_framecount
                    /\ m_id_list' = c.T.m_id_list
                    /\ m_next_id' = c.T.m_next_id
                    /\ ret_ids' = c.T.ret_ids
                    /\ crashed' = c.crashed
                    /\ matchRun' = [id \in after |-> matchRunU[id]]
                    /\ missRun' = [id \in after |-> missRunU[id]]
                    /\ lastRemoved' = [id \in DOMAIN u.T.m_active_objects \ after |-> missRunU[id]]
                    /\ removed' = removed \cup (DOMAIN u.T.m_active_objects \ after)
                    /\ returned' = returned \cup (Range(tvLog) \ {None})
                    /\ tvLog' = <<>>
                    /\ eligAtStart' = {id \in after :
                                          /\ c.T.m_framecount[id] >= m_min_framecount
                                          /\ c.T.m_uprooted[id] = FALSE}
                    /\ last' = [op |-> "update", new_objs |-> new_objs,
                                m |-> Cardinality(before)]
    /\ UNCHANGED config

TopValid ==
    /\ ~crashed
    /\ Len(tvLog) < MaxCalls
    /\ LET id == topValid_pick
       IN /\ m_uprooted' = IF id = None THEN m_uprooted ELSE topValid_uprooted(id)
          /\ tvLog' = Append(tvLog, id)
          /\ last' = IF id = None THEN [op |-> "topValid", ok |-> FALSE]
                     ELSE [op |-> "topValid", ok |-> TRUE, obj |-> m_active_objects[id]]
    /\ UNCHANGED <<config, m_active_objects, m_disappeared, m_framecount, m_id_list,
                   m_next_id, crashed, frames, ret_ids, matchRun, missRun, lastRemoved,
                   removed, returned, eligAtStart>>

Top ==
    /\ ~crashed
    /\ m_active_objects' = IF object_count = 0 THEN m_active_objects
                            ELSE Touch(m_active_objects, m_id_list[1])
    /\ UNCHANGED <<config, m_uprooted, m_disappeared, m_framecount, m_id_list, m_next_id,
                   crashed, history>>

ActiveObjects ==
    /\ ~crashed
    /\ m_active_objects' = TouchAll(m_active_objects, m_id_list, 1)
    /\ UNCHANGED <<config, m_uprooted, m_disappeared, m_framecount, m_id_list, m_next_id,
                   crashed, history>>

ObjectCount ==
    /\ ~crashed
    /\ UNCHANGED vars

Next == Update \/ TopValid \/ Top \/ ActiveObjects \/ ObjectCount

Spec == Init /\ [][Next]_vars

\* The tracker driven by update() calls alone (a client that makes no query):
\* update() reads nothing that a query writes.
SpecUpdates == Init /\ [][Update]_vars


\* ------------------------------------------------------------- properties
Count(seq, o) == Cardinality({i \in 1..Len(seq) : seq[i] = o})

\* C1: in every state the list returned by active_objects() is sorted in
\* descending order of the ranking relation: no object ranks below the one
\* that follows it.
C1_ActiveObjectsSorted ==
    ~crashed =>
        \A i \in 1..(Len(active_objects) - 1) :
            ~Greater(active_objects[i + 1], active_objects[i])

\* C2: each id is the result of a successful topValid() at most once: a call
\* never returns an id that an earlier call (before or after the last update)
\* has returned.
C2_TopValidAtMostOnce ==
    \A i \in 1..Len(tvLog) :
        tvLog[i] # None =>
            /\ tvLog[i] \notin returned
            /\ \A j \in 1..Len(tvLog) : j # i => tvLog[j] # tvLog[i]

\* C2 witness: an identity returned before the last update has since been
\* missed and matched again, has a valid framecount, and topValid was called.
C2_Witness ==
    /\ last.op = "topValid"
    /\ \E id \in returned \cap DOMAIN m_active_objects :
          /\ m_framecount[id] >= m_min_framecount
          /\ m_disappeared[id] > 0

\* C3: an identity unmatched for more than maxDisappearedFrames consecutive
\* updates is absent from the registry (map and list) at the end of the update
\* that exceeds the threshold, and a deregistered id never exists again.
C3_RemovedWhenThresholdExceeded ==
    ~crashed =>
        /\ \A id \in DOMAIN m_active_objects \cup Range(m_id_list) :
              id \in DOMAIN missRun => missRun[id] <= m_max_dissapeared_frms
        /\ removed \cap (DOMAIN m_active_objects \cup Range(m_id_list)) = {}

\* C4: an update deregisters an identity only if the identity went unmatched in
\* more than maxDisappearedFrames consecutive updates ending with that update.
C4_RemovedOnlyAfterConsecutiveMisses ==
    \A id \in DOMAIN lastRemoved : lastRemoved[id] > m_max_dissapeared_frms

\* C5: an identity matched (or registered and then matched) in k >= 1
\* consecutive updates up to now has matchStreak k and disappearedCount 0.
C5_StreakAndZeroDisappeared ==
    ~crashed =>
        \A id \in DOMAIN m_active_objects :
            matchRun[id] >= 1 =>
                /\ m_framecount[id] = matchRun[id]
                /\ m_disappeared[id] = 0

\* C6: every call of register_object returns an id strictly greater than every
\* id returned before, so no id is handed out twice.
C6_IdsStrictlyIncreasing ==
    \A i, j \in 1..Len(ret_ids) : i < j => ret_ids[i] < ret_ids[j]

\* C6 witness: objects were deregistered, and the last update registered new
\* ones into the then empty registry.
C6_Witness ==
    /\ last.op = "update"
    /\ last.m = 0
    /\ removed # {}
    /\ Cardinality(DOMAIN m_active_objects) > 0

\* C7: m_id_list holds every key of m_active_objects exactly once and nothing
\* else, and the four maps have the same key set.
C7_ListIsPermutationOfKeys ==
    /\ Range(m_id_list) = DOMAIN m_active_objects
    /\ Len(m_id_list) = Cardinality(DOMAIN m_active_objects)
    /\ DOMAIN m_uprooted = DOMAIN m_active_objects
    /\ DOMAIN m_disappeared = DOMAIN m_active_objects
    /\ DOMAIN m_framecount = DOMAIN m_active_objects

\* C7 witness: the last update deregistered two identities at once, and
\* topValid has been called since.
C7_Witness ==
    /\ Cardinality(DOMAIN lastRemoved) >= 2
    /\ last.op = "topValid"

\* C8: in every state, top() returns false exactly when object_count() is 0, and otherwise an
\* object that no tracked object ranks strictly above.
C8_TopIsHighestRanked ==
    ~crashed =>
        /\ (top.ok = FALSE) <=> (object_count = 0)
        /\ top.ok =>
              \A id \in DOMAIN m_active_objects :
                  ~Greater(m_active_objects[id], top.obj)

\* C9: update(new_objs) on an empty registry leaves object_count() equal to the
\* number of detections and active_objects() equal, as a multiset, to new_objs.
C9_EmptyRegistryRegistersAll ==
    (last.op = "update" /\ last.m = 0 /\ ~crashed) =>
        /\ object_count = Len(last.new_objs)
        /\ \A o \in Objects : Count(active_objects, o) = Count(last.new_objs, o)

\* C9 witness: an update on an empty registry was given the same detection
\* twice, and both were registered.
C9_Witness ==
    /\ last.op = "update"
    /\ last.m = 0
    /\ Len(last.new_objs) = 2
    /\ last.new_objs[1] = last.new_objs[2]
    /\ object_count = 2

\* C10: of the topValid() calls since the last update, the first k (k the number
\* of identities eligible after that update) return k distinct eligible
\* identities, and every later call returns none.
C10_RepeatedTopValid ==
    \A i \in 1..Len(tvLog) :
        IF i <= Cardinality(eligAtStart)
        THEN /\ tvLog[i] \in eligAtStart
             /\ \A j \in 1..(i - 1) : tvLog[j] # tvLog[i]
        ELSE tvLog[i] = None

\* C10 witness: of two tracked identities one was eligible; the first call
\* returned it and the second call returned none.
C10_Witness ==
    /\ Cardinality(eligAtStart) = 1
    /\ Cardinality(DOMAIN m_active_objects) = 2
    /\ Len(tvLog) = 2
    /\ tvLog[1] \in eligAtStart
    /\ tvLog[2] = None

\* C11: after every update, for every tracked identity, m_framecount is 0
\* exactly when the identity was missed in that update, and otherwise is the
\* number of consecutive updates, ending with that one, in which it was
\* registered or matched (1 for an identity the update registered).
C11_StreakCountsConsecutiveMatches ==
    \A id \in DOMAIN m_active_objects :
        /\ m_framecount[id] = matchRun[id]
        /\ (m_framecount[id] = 0) <=> (missRun[id] >= 1)

\* C11 witness: after an update one identity has been matched twice in a row
\* since an earlier miss, and another identity was missed by that update.
C11_Witness ==
    /\ last.op = "update"
    /\ \E a, b \in DOMAIN m_active_objects :
          /\ m_framecount[a] = 2
          /\ m_disappeared[a] >= 1
          /\ m_framecount[b] = 0

\* C12: m_disappeared of an identity is 0 when the identity is registered, grows
\* by exactly 1 in every update that misses it, and is left as it is by every
\* update that matches it and by every query (topValid included): it never
\* decreases while the identity exists.
C12_DisappearedOnlyGrows ==
    [][\A id \in DOMAIN m_disappeared' :
          IF id \notin DOMAIN m_disappeared THEN m_disappeared'[id] = 0
          ELSE IF frames' # frames /\ missRun'[id] >= 1
               THEN m_disappeared'[id] = m_disappeared[id] + 1
               ELSE m_disappeared'[id] = m_disappeared[id]]_vars

\* C12 witness: an identity that was missed once has since been matched in two
\* updates and still carries the miss.
C12_Witness ==
    /\ last.op = "update"
    /\ \E id \in DOMAIN m_active_objects :
          /\ matchRun[id] = 2
          /\ m_disappeared[id] = 1

\* C13: m_uprooted of a tracked identity is true exactly when some topValid()
\* call has returned that identity: it is false from registration on, is set
\* by the call that returns the identity and by nothing else, and no update or
\* later call clears it.
C13_UprootedIffReturned ==
    \A id \in DOMAIN m_uprooted :
        m_uprooted[id] <=> (id \in returned \/ id \in Range(tvLog))

\* C13 witness: after an update, an identity returned by an earlier topValid()
\* has been both missed and matched since, and is still uprooted, next to an
\* identity that is not.
C13_Witness ==
    /\ last.op = "update"
    /\ \E a, b \in DOMAIN m_uprooted :
          /\ m_uprooted[a]
          /\ m_disappeared[a] >= 1
          /\ m_framecount[a] >= 1
          /\ ~m_uprooted[b]

\* C14: a step that is not an update (active_objects(), object_count(), top()
\* or topValid()) leaves the object map, the id list, the disappeared counts,
\* the framecounts and the next id as they are; it leaves m_uprooted as it is
\* too, unless it is a topValid() call that returns an identity, which sets
\* the flag of that identity and nothing else.
C14_QueriesArePureReads ==
    [][frames' = frames =>
          /\ m_active_objects' = m_active_objects
          /\ m_id_list' = m_id_list
          /\ m_disappeared' = m_disappeared
          /\ m_framecount' = m_framecount
          /\ m_next_id' = m_next_id
          /\ \/ m_uprooted' = m_uprooted
             \/ /\ Len(tvLog') = Len(tvLog) + 1
                /\ tvLog'[Len(tvLog')] \in DOMAIN m_uprooted
                /\ m_uprooted' = [m_uprooted EXCEPT ![tvLog'[Len(tvLog')]] = TRUE]
          /\ (Len(tvLog') = Len(tvLog) + 1 /\ tvLog'[Len(tvLog')] = None)
                => m_uprooted' = m_uprooted]_vars

\* C14 witness: with two identities tracked, one uprooted and one not,
\* topValid() has just returned false.
C14_Witness ==
    /\ last.op = "topValid"
    /\ last.ok = FALSE
    /\ object_count = 2
    /\ \E a, b \in DOMAIN m_uprooted : m_uprooted[a] /\ ~m_uprooted[b]

\* The update() calls examined below: in a state from which update() is taken,
\* the detection lists of its general case (m > 0 tracked, n > 0 detections).
GeneralCase == ~crashed /\ frames < MaxFrames /\ object_count > 0
GeneralInputs == {new_objs \in DetLists : Len(new_objs) > 0}
Hits(u) == {k \in 1..Len(u.pairs) : u.pairs[k].hit}

\* C15: in the general case of update() every tracked identity is resolved
\* once; the matched pairs are one-to-one (no detection updates two identities),
\* every matched pair is strictly closer than m_dist_tol and the identity takes
\* the detection's value; an identity with no detection strictly within
\* m_dist_tol is a miss; a missed identity gets m_disappeared + 1,
\* m_framecount 0 and keeps its object.
C15_MatchingWithinTolerance ==
    GeneralCase =>
        \A new_objs \in GeneralInputs :
            \A u \in update_body(Tracker, new_objs) :
                LET D == dist_matrix(Tracker, new_objs)
                    m == object_count
                    n == Len(new_objs)
                IN /\ Len(u.pairs) = m
                   /\ \A i \in 1..m : \E k \in 1..m : u.pairs[k].row = i
                   /\ \A k, l \in Hits(u) : k # l => u.pairs[k].col # u.pairs[l].col
                   /\ \A k \in 1..m :
                         LET row == u.pairs[k].row
                             id == m_id_list[row]
                         IN IF u.pairs[k].hit
                            THEN /\ D[row][u.pairs[k].col] < m_dist_tol
                                 /\ u.T.m_active_objects[id] = new_objs[u.pairs[k].col]
                            ELSE /\ u.T.m_disappeared[id] = m_disappeared[id] + 1
                                 /\ u.T.m_framecount[id] = 0
                                 /\ u.T.m_active_objects[id] = m_active_objects[id]
                   /\ \A k \in 1..m :
                         (\A j \in 1..n : D[u.pairs[k].row][j] >= m_dist_tol)
                            => ~u.pairs[k].hit

\* C15 witness: the last update, in its general case, missed an identity whose
\* distance to one of the detections is exactly m_dist_tol; the identity is
\* still tracked, at its old position.
C15_Witness ==
    /\ last.op = "update"
    /\ ~crashed
    /\ last.m > 0
    /\ \E id \in DOMAIN m_active_objects :
          /\ missRun[id] = 1
          /\ \E j \in 1..Len(last.new_objs) :
                euclidean_distance(m_active_objects[id], last.new_objs[j]) = m_dist_tol

\* C16: update() with n > 0 detections accounts for every detection exactly
\* once: a detection is taken by at most one tracked identity, and every
\* detection no identity took is registered as exactly one new identity with
\* the detection's value.  So before cleanup_dissapeared runs there are
\* m + n - (matched pairs) identities, none of the old ones is gone, and every
\* detection is the value of some identity.
C16_EveryDetectionAccounted ==
    (~crashed /\ frames < MaxFrames) =>
        \A new_objs \in GeneralInputs :
            \A u \in update_body(Tracker, new_objs) :
                LET m == object_count
                    n == Len(new_objs)
                    after == DOMAIN u.T.m_active_objects
                    new_ids == after \ DOMAIN m_active_objects
                    takers(j) == {k \in Hits(u) : u.pairs[k].col = j}
                    free == {j \in 1..n : takers(j) = {}}
                IN /\ \A j \in 1..n : Cardinality(takers(j)) <= 1
                   /\ \A j \in 1..n : \A k \in takers(j) :
                         u.T.m_active_objects[m_id_list[u.pairs[k].row]] = new_objs[j]
                   /\ DOMAIN m_active_objects \subseteq after
                   /\ Cardinality(after) = m + n - Cardinality(Hits(u))
                   /\ Len(u.T.ret_ids) = Len(ret_ids) + Cardinality(free)
                   /\ \A o \in Objects :
                         Cardinality({id \in new_ids : u.T.m_active_objects[id] = o})
                            = Cardinality({j \in free : new_objs[j] = o})
                   /\ \A j \in 1..n : \E id \in after : u.T.m_active_objects[id] = new_objs[j]

\* C16 witness: the last update was given two different detections with one
\* identity tracked; the identity took one of them and the other one was
\* registered as a new identity.
C16_Witness ==
    /\ last.op = "update"
    /\ ~crashed
    /\ last.m = 1
    /\ Len(last.new_objs) = 2
    /\ last.new_objs[1] # last.new_objs[2]
    /\ \E a, b \in DOMAIN m_active_objects :
          /\ matchRun[a] = 2
          /\ matchRun[b] = 1
          /\ m_disappeared[b] = 0
          /\ {m_active_objects[a], m_active_objects[b]} = Range(last.new_objs)

\* Smallest entry of row i of the distance matrix, and of the whole matrix.
RowMin(D, i, n) == Min({D[i][j] : j \in 1..n})
MatrixMin(D, m, n) == Min({D[i][j] : i \in 1..m, j \in 1..n})

\* C17: in the general case of update() the rows are resolved in ascending order
\* of their smallest distance; if the smallest entry of the distance matrix is
\* below m_dist_tol, a pair with that distance is matched; and when a row takes
\* a detection, every detection strictly nearer to it was taken by a row
\* resolved before it.
C17_BestCorrespondenceFirst ==
    GeneralCase =>
        \A new_objs \in GeneralInputs :
            LET D == dist_matrix(Tracker, new_objs)
                m == object_count
                n == Len(new_objs)
            IN \A u \in update_body(Tracker, new_objs) :
                  /\ \A k, l \in 1..Len(u.pairs) :
                        k < l => RowMin(D, u.pairs[k].row, n) <= RowMin(D, u.pairs[l].row, n)
                  /\ MatrixMin(D, m, n) < m_dist_tol =>
                        \E k \in Hits(u) :
                            D[u.pairs[k].row][u.pairs[k].col] = MatrixMin(D, m, n)
                  /\ \A k \in Hits(u) : \A j \in 1..n :
                        D[u.pairs[k].row][j] < D[u.pairs[k].row][u.pairs[k].col] =>
                            \E l \in Hits(u) : l < k /\ u.pairs[l].col = j

\* C17 witness: a reachable state and a detection list for which update()
\* matches the pair of smallest distance first and then gives another identity
\* a detection that is not its nearest, the nearest one being taken.
C17_Witness ==
    /\ GeneralCase
    /\ \E new_objs \in GeneralInputs :
          LET D == dist_matrix(Tracker, new_objs)
          IN \E u \in update_body(Tracker, new_objs) :
                \E k \in Hits(u) : \E j \in 1..Len(new_objs) :
                    D[u.pairs[k].row][j] < D[u.pairs[k].row][u.pairs[k].col]

\* Identities topValid() may return: valid framecount and not uprooted.
Eligible ==
    {id \in DOMAIN m_active_objects :
        m_framecount[id] >= m_min_framecount /\ m_uprooted[id] = FALSE}

C19_TiesGoToSmallerIndex ==
    GeneralCase =>
        \A new_objs \in GeneralInputs :
            LET D == dist_matrix(Tracker, new_objs)
            IN /\ \A u, v \in update_body(Tracker, new_objs) : u.T = v.T
               /\ \A u \in update_body(Tracker, new_objs) :
                     \A k \in Hits(u) : \A j \in 1..Len(new_objs) :
                         (j < u.pairs[k].col
                            /\ D[u.pairs[k].row][j] = D[u.pairs[k].row][u.pairs[k].col])
                         => \E l \in Hits(u) : l < k /\ u.pairs[l].col = j

\* Position of id e in the list s.
Pos(s, e) == Min({i \in 1..Len(s) : s[i] = e})

====
